---- MODULE Spec2Model ----
(***************************************************************************)
(* A model of the limbo simulator (src/simulator/main.rs): the value,      *)
(* predicate and query generators, the tick loop with its query runner,    *)
(* and the fault-injecting I/O facade; and of the prepared statements     *)
(* that tests/integration/query_processing/test_read_path.rs exercises.   *)
(***************************************************************************)
EXTENDS Integers, Sequences, FiniteSets, TLC

VARIABLES
    \* ---- generators (pure functions applied to drawn inputs)
    genT,        \* the table handed to a generator
    genWant,     \* the truth value handed to a predicate builder
    genPc,       \* "start" | "children" | "done" | "panicked"
    genKind,     \* which generator ran
    genArg,      \* the value a value generator was applied to
    genOut,      \* the generator's result
    genBools,    \* the truth values handed to the children of a compound
    \* ---- the simulator (SimulatorEnv and the locals of main)
    opts,        \* SimulatorOpts: ticks, max_connections, max_tables
    tables,      \* env.tables, the shadow
    connections, \* env.connections
    conns,       \* the Rc<Connection> of each Connected slot (cur), those that
                 \* conn.close() was called on (closed), and the one the
                 \* statement in hand was submitted on (used)
    tick,        \* iterations of the tick loop started so far
    pc,          \* "loop" | "steps" | "exit" | "done" | "panicked"
    stmt,        \* the statement get_all_rows is stepping
    out,         \* get_all_rows' out: the rows decoded so far
    err,         \* the call whose error ended get_all_rows in this tick
    eng,         \* the engine: the tables it holds, by name
    \* ---- the I/O facade (SimulatorIO and its SimulatorFiles)
    fault,       \* SimulatorIO.fault
    nr_run_once_faults,
    files,       \* SimulatorIO.files
    calls,       \* per file, the pread and pwrite calls made on it so far
    ioRes,       \* the last call on the facade and what it returned
    \* ---- two runs of main started with the same SEED
    seed,        \* the SEED both runs are given
    drawn,       \* what the ChaCha8 stream of that seed makes main draw
    runs,        \* per run: where main is, its temporary directory, its stdout
    \* ---- the integration tests of prepared statements (test_read_path.rs)
    tcase,       \* the test that runs: its statement, arguments and expectations
    tpc,         \* "bind1" | "loop1" | "bind2" | "loop2" | "select" | "passed" | "failed"
    tins,        \* the statement the test prepares first (`stmt`, `ins`)
    tsel,        \* the statement it reads the table back with (`sel`)
    tdb,         \* the rows of table test
    trows        \* the rows the test's loops were handed, in order

genVars == <<genT, genWant, genPc, genKind, genArg, genOut, genBools>>
simVars == <<opts, tables, connections, conns, tick, pc, stmt, out, err, eng>>
ioVars == <<fault, nr_run_once_faults, files, calls, ioRes>>
runVars == <<seed, drawn, runs>>
testVars == <<tcase, tpc, tins, tsel, tdb, trows>>
vars == <<genT, genWant, genPc, genKind, genArg, genOut, genBools,
          opts, tables, connections, conns, tick, pc, stmt, out, err, eng,
          fault, nr_run_once_faults, files, calls, ioRes,
          seed, drawn, runs,
          tcase, tpc, tins, tsel, tdb, trows>>

(***************************************************************************)
(* Bounds of the model.                                                    *)
(***************************************************************************)
\* i64::MAX, on a narrow integer width; i64::MIN is -IntMax - 1.
IntMax == 2
\* The 1e10 limit of the Float domain, on a grid of step 1.0.
FloatMax == 2
\* Longest text of a table the generators are applied to.
MaxTextLen == 2
\* Most rows and most columns of a table the generators are applied to.
MaxRows == 2
MaxCols == 2
\* Most values (rows times columns) of such a table.
MaxCells == 2

IntMin == -IntMax - 1
FloatMin == -FloatMax

(***************************************************************************)
(* Values.                                                                 *)
(***************************************************************************)
ColumnTypes == {"Integer", "Float", "Text", "Blob"}

Null == [kind |-> "Null", v |-> 0]
\* The outcome of a generator that aborts (a panic).
Panic == [kind |-> "Panic", v |-> 0]
IntegerValue(i) == [kind |-> "Integer", v |-> i]
FloatValue(f) == [kind |-> "Float", v |-> f]
TextValue(t) == [kind |-> "Text", v |-> t]
BlobValue(b) == [kind |-> "Blob", v |-> b]

\* rng.gen_range(lo..hi): the half-open range; empty when lo >= hi.
GenRange(lo, hi) == lo .. (hi - 1)
\* rng.gen_range(lo..=hi)
GenRangeInclusive(lo, hi) == lo .. hi

\* The largest byte.
ByteMax == 255
Bytes == 0 .. ByteMax

\* String::from_utf8: whether a byte sequence is well-formed UTF-8.
IsCont(b) == b >= 128 /\ b <= 191
RECURSIVE IsValidUtf8(_)
IsValidUtf8(s) ==
    IF s = <<>> THEN TRUE
    ELSE LET b == s[1]
             n == Len(s)
         IN  IF b < 128 THEN IsValidUtf8(Tail(s))
             ELSE IF b >= 194 /\ b <= 223
                  THEN n >= 2 /\ IsCont(s[2]) /\ IsValidUtf8(SubSeq(s, 3, n))
             ELSE IF b >= 224 /\ b <= 239
                  THEN /\ n >= 3
                       /\ IsCont(s[2]) /\ IsCont(s[3])
                       /\ (b = 224 => s[2] >= 160)
                       /\ (b = 237 => s[2] <= 159)
                       /\ IsValidUtf8(SubSeq(s, 4, n))
             ELSE IF b >= 240 /\ b <= 244
                  THEN /\ n >= 4
                       /\ IsCont(s[2]) /\ IsCont(s[3]) /\ IsCont(s[4])
                       /\ (b = 240 => s[2] >= 144)
                       /\ (b = 244 => s[2] <= 143)
                       /\ IsValidUtf8(SubSeq(s, 5, n))
             ELSE FALSE

\* `c as u8 as char` pushed on a String: the UTF-8 encoding of code point c < 256.
CharBytes(c) == IF c < 128 THEN <<c>> ELSE <<192 + (c \div 64), 128 + (c % 64)>>

\* The single quote that Display for Value puts around a Text.
Quote == 39
\* Display for Value, the Text arm: write!(f, "'{}'", t), nothing escaped.
DisplayText(t) == <<Quote>> \o t \o <<Quote>>

\* String::pop: removes the last char (one or more bytes); nothing when empty.
RECURSIVE PopChar(_)
PopChar(s) ==
    IF s = <<>> THEN s
    ELSE IF IsCont(s[Len(s)]) THEN PopChar(SubSeq(s, 1, Len(s) - 1))
    ELSE SubSeq(s, 1, Len(s) - 1)

\* The byte sequences of length n.
BytesOfLen(n) == [1 .. n -> Bytes]

\* s with the byte at index i (1-based) replaced by b and every byte after it
\* replaced by the bytes of rest.
Mutate(s, i, b, rest) ==
    [k \in 1 .. Len(s) |-> IF k < i THEN s[k] ELSE IF k = i THEN b ELSE rest[k - i]]

\* gen_random_text: a readable name ('-' replaced by '_'), or a block of
\* the letters 'A'.. in order. Both are cut to MaxTextLen bytes.
NameBytes == {95, 97}
BigText(n) == [i \in 1 .. n |-> ((i - 1) % 26) + 65]
gen_random_text ==
    {BigText(MaxTextLen)} \cup
    UNION {[1 .. n -> NameBytes] : n \in 1 .. MaxTextLen}

\* Value::arbitrary_of(&ColumnType)
ValueOfType(t) ==
    CASE t = "Integer" -> {IntegerValue(i) : i \in GenRange(IntMin, IntMax)}
      [] t = "Float" -> {FloatValue(f) : f \in GenRange(FloatMin, FloatMax)}
      [] t = "Text" -> {TextValue(s) : s \in gen_random_text}
      [] t = "Blob" -> {BlobValue(s) : s \in gen_random_text}

\* Value::arbitrary_of(&Vec<&Value>)
ValueOfVec(vals) ==
    IF vals = <<>> THEN {Null} ELSE {vals[i] : i \in 1 .. Len(vals)}

\* The results of the Text arm once a byte index is drawn: the byte at the
\* index becomes b, the rest is redrawn, and from_utf8(..).unwrap() aborts on
\* a sequence that is not UTF-8.
TextMutations(s, i, b) ==
    {IF IsValidUtf8(Mutate(s, i, b, rest)) THEN TextValue(Mutate(s, i, b, rest)) ELSE Panic :
        rest \in BytesOfLen(Len(s) - i)}

\* LTValue::arbitrary_of(&Value)
LTValueOf(val) ==
    CASE val.kind = "Integer" ->
            \* *i - 1 overflows at i64::MIN: an abort in a checked build, a wrap
            \* to i64::MAX otherwise.
            IF val.v = IntMin
            THEN {Panic} \cup {IntegerValue(i) : i \in GenRange(IntMin, IntMax)}
            ELSE IF GenRange(IntMin, val.v - 1) = {} THEN {Panic}
            ELSE {IntegerValue(i) : i \in GenRange(IntMin, val.v - 1)}
      [] val.kind = "Float" ->
            IF GenRange(FloatMin, val.v - 1) = {} THEN {Panic}
            ELSE {FloatValue(f) : f \in GenRange(FloatMin, val.v - 1)}
      [] val.kind = "Text" ->
            {TextValue(PopChar(val.v))} \cup
            (IF val.v = <<>> THEN {Panic}
             ELSE UNION {IF val.v[i] = 0
                         \* t[index] -= 1 at byte 0: an abort, or a wrap to 255
                         THEN {Panic} \cup TextMutations(val.v, i, ByteMax)
                         ELSE TextMutations(val.v, i, val.v[i] - 1) :
                            i \in 1 .. Len(val.v)})
      [] OTHER -> {Panic}

\* GTValue::arbitrary_of(&Value)
GTValueOf(val) ==
    CASE val.kind = "Integer" ->
            IF GenRange(val.v, IntMax) = {} THEN {Panic}
            ELSE {IntegerValue(i) : i \in GenRange(val.v, IntMax)}
      [] val.kind = "Float" ->
            IF GenRange(val.v, FloatMax) = {} THEN {Panic}
            ELSE {FloatValue(f) : f \in GenRange(val.v, FloatMax)}
      [] val.kind = "Text" ->
            {TextValue(val.v \o CharBytes(c)) : c \in GenRangeInclusive(0, ByteMax)} \cup
            (IF val.v = <<>> THEN {Panic}
             ELSE UNION {IF val.v[i] = ByteMax
                         \* t[index] += 1 at byte 255: an abort, or a wrap to 0
                         THEN {Panic} \cup TextMutations(val.v, i, 0)
                         ELSE TextMutations(val.v, i, val.v[i] + 1) :
                            i \in 1 .. Len(val.v)})
      [] OTHER -> {Panic}

\* An LTValue::arbitrary_of(&Vec<&Value>) that answers an Integer, not Null,
\* when there is no value to pick.
LTValueOfVec_NoNull(vals) ==
    IF vals = <<>> THEN {IntegerValue(0)}
    ELSE UNION {LTValueOf(vals[i]) : i \in 1 .. Len(vals)}

\* LTValue::arbitrary_of(&Vec<&Value>)
LTValueOfVec(vals) ==
    IF vals = <<>> THEN {Null}
    ELSE UNION {LTValueOf(vals[i]) : i \in 1 .. Len(vals)}

\* GTValue::arbitrary_of(&Vec<&Value>)
GTValueOfVec(vals) ==
    IF vals = <<>> THEN {Null}
    ELSE UNION {GTValueOf(vals[i]) : i \in 1 .. Len(vals)}

(***************************************************************************)
(* Tables and predicates.                                                  *)
(***************************************************************************)
\* Table { rows, name, columns } with Column { name, column_type, .. }
Column(n, t) == [name |-> n, column_type |-> t]
Table(n, cols, rows) == [name |-> n, columns |-> cols, rows |-> rows]

\* t.rows.iter().map(|r| &r[column_index]): the column's values, row by row
ColumnValues(t, c) == [r \in 1 .. Len(t.rows) |-> t.rows[r][c]]

SimplePred(op, col, val) == [op |-> op, col |-> col, val |-> val]

\* The right-hand sides SimplePredicate::arbitrary_of draws for operator op on
\* column c of t with wanted truth b.
SimpleRhs(t, c, op, b) ==
    LET vals == ColumnValues(t, c)
    IN  CASE op = "Eq" ->
                IF b THEN ValueOfVec(vals) ELSE ValueOfType(t.columns[c].column_type)
          [] op = "Gt" -> IF b THEN GTValueOfVec(vals) ELSE LTValueOfVec(vals)
          [] op = "Lt" -> IF b THEN LTValueOfVec(vals) ELSE GTValueOfVec(vals)

\* SimplePredicate::arbitrary_of(&(t, b)): every predicate it can return; one
\* whose val is Panic stands for a run that aborts in the value generator.
SimplePredicateOf(t, b) ==
    UNION {{SimplePred(op, t.columns[c].name, v) : v \in SimpleRhs(t, c, op, b)} :
            c \in 1 .. Len(t.columns), op \in {"Eq", "Gt", "Lt"}}

\* The fewest and the most children of a compound predicate: gen_range(1..=3).
MinChildren == 1
MaxChildren == 3

\* Coin flips with no value forced afterwards.
ForcedBooleans_Unforced(n, forced) == [1 .. n -> BOOLEAN]

\* The truth values CompoundPredicate::arbitrary_of hands to its children.
\* `forced` is the value the builder makes sure is present: false for an And
\* that is to be false, true for an Or that is to be true.
ForcedBooleans(n, forced) ==
    UNION {IF \A i \in 1 .. n : bs[i] = ~forced
           THEN {[bs EXCEPT ![k] = forced] : k \in 1 .. n}
           ELSE {bs} : bs \in [1 .. n -> BOOLEAN]}

CompoundBooleans(isAnd, b) ==
    UNION {IF isAnd
           THEN IF b THEN {[i \in 1 .. n |-> TRUE]} ELSE ForcedBooleans(n, FALSE)
           ELSE IF b THEN ForcedBooleans(n, TRUE) ELSE {[i \in 1 .. n |-> FALSE]} :
               n \in GenRangeInclusive(MinChildren, MaxChildren)}

(***************************************************************************)
(* The simulator-side evaluator of a predicate on a row (section 4.4 of   *)
(* the specification; the source holds no evaluator).                      *)
(***************************************************************************)
RECURSIVE SeqLess(_, _)
SeqLess(a, b) ==
    IF b = <<>> THEN FALSE
    ELSE IF a = <<>> THEN TRUE
    ELSE IF a[1] # b[1] THEN a[1] < b[1]
    ELSE SeqLess(Tail(a), Tail(b))

ValueLess(a, b) ==
    /\ a.kind = b.kind
    /\ CASE a.kind \in {"Integer", "Float"} -> a.v < b.v
         [] a.kind \in {"Text", "Blob"} -> SeqLess(a.v, b.v)
         [] OTHER -> FALSE

ValueEq(a, b) == a.kind = b.kind /\ a.v = b.v

\* The index of the column a predicate names.
ColumnIndex(t, n) == CHOOSE c \in 1 .. Len(t.columns) : t.columns[c].name = n

EvalSimple(p, t, row) ==
    LET x == row[ColumnIndex(t, p.col)]
    IN  CASE p.op = "Eq" -> ValueEq(x, p.val)
          [] p.op = "Gt" -> ValueLess(p.val, x)
          [] p.op = "Lt" -> ValueLess(x, p.val)

Eval(p, t, row) ==
    CASE p.op = "And" -> \A i \in 1 .. Len(p.children) : EvalSimple(p.children[i], t, row)
      [] p.op = "Or" -> \E i \in 1 .. Len(p.children) : EvalSimple(p.children[i], t, row)
      [] OTHER -> EvalSimple(p, t, row)

(***************************************************************************)
(* The generators applied to drawn inputs.                                 *)
(***************************************************************************)
\* Rows whose values are of any column type, whatever the column's.
RowsOfTypes_AnyKind(types) ==
    [1 .. Len(types) -> UNION {ValueOfType(t) : t \in ColumnTypes}]

\* The rows a table of the given column types can hold: one value of the
\* column's type per column (what Query::arbitrary_of inserts).
RowsOfTypes(types) ==
    {r \in [1 .. Len(types) -> UNION {ValueOfType(t) : t \in ColumnTypes}] :
        \A c \in 1 .. Len(types) : r[c] \in ValueOfType(types[c])}

SeqsUpTo(S, n) == UNION {[1 .. k -> S] : k \in 0 .. n}

ColumnNames == <<"c1", "c2", "c3">>

TablesOfTypes(types) ==
    {Table("t", [c \in 1 .. Len(types) |-> Column(ColumnNames[c], types[c])], rows) :
        rows \in {rs \in SeqsUpTo(RowsOfTypes(types), MaxRows) :
                    Len(rs) * Len(types) <= MaxCells}}

\* The tables of at most maxCols columns the generators are applied to.
GenTables(maxCols) ==
    UNION {TablesOfTypes(types) :
            types \in UNION {[1 .. n -> ColumnTypes] : n \in 1 .. maxCols}}

\* The tables the compound builder is applied to: those of GenTables(maxCols)
\* with no Text among the rows.
PredTables(maxCols) ==
    {t \in GenTables(maxCols) :
        \A r \in 1 .. Len(t.rows) : \A c \in 1 .. Len(t.columns) : t.rows[r][c].kind # "Text"}

NoValue == [kind |-> "None", v |-> 0]
NoPred == [op |-> "None"]

\* The values held by the table.
TableValues(t) ==
    {t.rows[r][c] : r \in 1 .. Len(t.rows), c \in 1 .. Len(t.columns)}

\* LTValue::arbitrary_of applied to a value of the table.
ApplyLT ==
    /\ genPc = "start"
    /\ \E val \in TableValues(genT) : \E res \in LTValueOf(val) :
          /\ genArg' = val
          /\ genOut' = res
          /\ genPc' = IF res = Panic THEN "panicked" ELSE "done"
    /\ genKind' = "LT"
    /\ UNCHANGED <<genT, genWant, genBools, simVars, ioVars, runVars, testVars>>

\* GTValue::arbitrary_of applied to a value of the table.
ApplyGT ==
    /\ genPc = "start"
    /\ \E val \in TableValues(genT) : \E res \in GTValueOf(val) :
          /\ genArg' = val
          /\ genOut' = res
          /\ genPc' = IF res = Panic THEN "panicked" ELSE "done"
    /\ genKind' = "GT"
    /\ UNCHANGED <<genT, genWant, genBools, simVars, ioVars, runVars, testVars>>

\* compare_equal_rows(a, b): TRUE when it returns, FALSE when one of its
\* assert_eq's fails. The rows are walked with zip, which stops at the end
\* of the shorter of the two rows.
CompareEqualRows(a, b) ==
    /\ Len(a) = Len(b)
    /\ \A r \in 1 .. Len(a) :
          \A k \in 1 .. (IF Len(a[r]) < Len(b[r]) THEN Len(a[r]) ELSE Len(b[r])) :
              a[r][k] = b[r][k]

\* compare_equal_rows(genT.rows, b), b the rows an engine may have returned
\* for the table: the same rows, the rows but the last, the rows each without
\* its last value, or the rows with a Null for the first value.
ApplyCompare ==
    /\ genPc = "start"
    /\ LET a == genT.rows
           n == Len(a)
       IN  \E b \in {a, SubSeq(a, 1, n - 1),
                     [r \in 1 .. n |-> SubSeq(a[r], 1, Len(a[r]) - 1)],
                     [r \in 1 .. n |-> IF r = 1 THEN [a[r] EXCEPT ![1] = Null] ELSE a[r]]} :
              /\ genArg' = [kind |-> "Rows", v |-> b]
              /\ genPc' = IF CompareEqualRows(a, b) THEN "done" ELSE "panicked"
    /\ genKind' = "Compare"
    /\ UNCHANGED <<genT, genWant, genOut, genBools, simVars, ioVars, runVars, testVars>>

\* SimplePredicate::arbitrary_of(&(genT, genWant))
ApplySimple ==
    /\ genPc = "start"
    /\ \E p \in SimplePredicateOf(genT, genWant) :
          /\ genOut' = p
          /\ genPc' = IF p.val = Panic THEN "panicked" ELSE "done"
    /\ genKind' = "Simple"
    /\ UNCHANGED <<genT, genWant, genArg, genBools, simVars, ioVars, runVars, testVars>>

\* CompoundPredicate::arbitrary_of(&(genT, genWant)): the And/Or draw and the
\* truth values of the children.
CompoundStart ==
    /\ genPc = "start"
    /\ \E isAnd \in BOOLEAN : \E bs \in CompoundBooleans(isAnd, genWant) :
          /\ genOut' = [op |-> IF isAnd THEN "And" ELSE "Or", children |-> <<>>]
          /\ genBools' = bs
    /\ genPc' = "children"
    /\ genKind' = "Compound"
    /\ UNCHANGED <<genT, genWant, genArg, simVars, ioVars, runVars, testVars>>

\* CompoundPredicate::arbitrary_of: the next child, built with its truth value.
CompoundChild ==
    /\ genPc = "children"
    /\ LET k == Len(genOut.children) + 1
       IN  \E p \in SimplePredicateOf(genT, genBools[k]) :
              IF p.val = Panic
              THEN genPc' = "panicked" /\ UNCHANGED genOut
              ELSE /\ genOut' = [genOut EXCEPT !.children = Append(@, p)]
                   /\ genPc' = IF k = Len(genBools) THEN "done" ELSE "children"
    /\ UNCHANGED <<genT, genWant, genKind, genArg, genBools, simVars, ioVars, runVars, testVars>>

(***************************************************************************)
(* Bounds of the simulator run.                                            *)
(***************************************************************************)
\* The largest opts.ticks and opts.max_tables main draws.
MaxTicks == 4
MaxTables == 2
\* The most columns gen_columns gives a table.
MaxGenColumns == 1
\* The most rows the engine holds for a table.
MaxEngRows == 1
\* The most I/O waits the engine reports while one statement is stepped.
MaxIO == 1

\* gen_random_name: the names it can return.
TableNames == {"t1", "t2"}

(***************************************************************************)
(* Statements and their SQL text.                                          *)
(***************************************************************************)
\* ColumnType::as_str
AsStr(t) ==
    CASE t = "Integer" -> "INTEGER"
      [] t = "Float" -> "FLOAT"
      [] t = "Text" -> "TEXT"
      [] t = "Blob" -> "BLOB"

\* The column list of Table::to_create_str: "<name> <TYPE>," per column, the
\* last comma popped.
RECURSIVE ColumnDefs(_)
ColumnDefs(cols) ==
    IF Len(cols) = 1 THEN cols[1].name \o " " \o AsStr(cols[1].column_type)
    ELSE cols[1].name \o " " \o AsStr(cols[1].column_type) \o "," \o ColumnDefs(Tail(cols))

\* Table::to_create_str
ToCreateStr(t) == "CREATE TABLE " \o t.name \o " (" \o ColumnDefs(t.columns) \o ");"

\* gen_columns
gen_columns ==
    UNION {{[c \in 1 .. n |-> Column(ColumnNames[c], ty[c])] : ty \in [1 .. n -> ColumnTypes]} :
            n \in GenRange(1, MaxGenColumns + 1)}

\* Table::arbitrary, and the table maybe_add_table builds
ArbitraryTables == {Table(n, cols, <<>>) : n \in TableNames, cols \in gen_columns}

NoTable == Table("", <<>>, <<>>)

\* The last bucket Query::arbitrary_of draws: gen_range(0..=200).
LastBucket == 200
QueryBuckets == GenRangeInclusive(0, LastBucket)

\* The arm of Query::arbitrary_of's match a bucket falls in.
QueryKind(bucket) ==
    CASE bucket = 0 -> "Create"
      [] bucket >= 1 /\ bucket <= 100 -> "Select"
      [] bucket >= 101 /\ bucket <= 200 -> "Insert"
      [] bucket >= 201 /\ bucket <= 300 -> "Delete"
      [] OTHER -> "Unreachable"

ColumnTypesOf(t) == [c \in 1 .. Len(t.columns) |-> t.columns[c].column_type]

Query(kind, name, create, values) ==
    [kind |-> kind, table |-> name, create |-> create, values |-> values]

\* The arms of the match that some drawn bucket falls in.
QueryKinds == {QueryKind(b) : b \in QueryBuckets}

\* Query::arbitrary_of(t): the queries it can return. The guard of a Select
\* or a Delete is Predicate::arbitrary_of(t), built by CompoundStart and
\* CompoundChild; the query record does not carry it.
QueryOf(t) ==
    UNION {CASE k = "Create" ->
                    {Query("Create", nt.name, nt, <<>>) : nt \in ArbitraryTables}
             [] k = "Insert" ->
                    {Query("Insert", t.name, NoTable, r) : r \in RowsOfTypes(ColumnTypesOf(t))}
             [] OTHER -> {Query(k, t.name, NoTable, <<>>)} :
           k \in QueryKinds}

\* The schema query of maybe_add_table.
SchemaQuery(t) == Query("Schema", t.name, NoTable, <<>>)

\* Query::arbitrary_of(genT)
ApplyQuery ==
    /\ genPc = "start"
    /\ \E q \in QueryOf(genT) : genOut' = q
    /\ genPc' = "done"
    /\ genKind' = "Query"
    /\ UNCHANGED <<genT, genWant, genArg, genBools, simVars, ioVars, runVars, testVars>>

(***************************************************************************)
(* The engine, as section 6 of the specification describes it (limbo_core  *)
(* is not part of the simulator's source).                                 *)
(***************************************************************************)
NoEngTable == [exists |-> FALSE, sql |-> "", columns |-> <<>>, rows |-> <<>>]

\* The DDL the engine stores for a created table: the text it was given, or
\* that text without its closing ";".
StoredSql(t) ==
    {ToCreateStr(t), "CREATE TABLE " \o t.name \o " (" \o ColumnDefs(t.columns) \o ")"}

\* Whether the engine can prepare the statement.
PrepareOk(e, q) ==
    CASE q.kind = "Create" -> ~e[q.table].exists
      [] q.kind = "Schema" -> TRUE
      [] OTHER -> e[q.table].exists

\* The subsequences of a sequence of at most two rows.
SubSeqs(rows) ==
    {<<>>, rows} \cup {<<rows[i]>> : i \in 1 .. Len(rows)}

\* The rows the engine will yield for the statement.
ResultRows(e, q) ==
    CASE q.kind = "Schema" ->
            IF e[q.table].exists
            THEN {<< <<[kind |-> "Text", v |-> e[q.table].sql]>> >>}
            ELSE {<<>>}
      [] q.kind = "Select" -> SubSeqs(e[q.table].rows)
      [] OTHER -> {<<>>}

\* The engines a statement stepped to Done can leave.
Applied(e, q) ==
    CASE q.kind = "Create" ->
            {[e EXCEPT ![q.table] =
                [exists |-> TRUE, sql |-> s, columns |-> q.create.columns, rows |-> <<>>]] :
                    s \in StoredSql(q.create)}
      [] q.kind = "Insert" -> {[e EXCEPT ![q.table].rows = Append(@, q.values)]}
      [] q.kind = "Delete" -> {[e EXCEPT ![q.table].rows = r] : r \in SubSeqs(e[q.table].rows)}
      [] OTHER -> {e}

(***************************************************************************)
(* The I/O facade.                                                         *)
(***************************************************************************)
\* The SimulatorFile that SimulatorIO::open_file registers.
NewFile ==
    [fault |-> FALSE, nr_pread_faults |-> 0, nr_pwrite_faults |-> 0,
     reads |-> 0, writes |-> 0, syncs |-> 0]

\* What has been done to a file so far: the pread and pwrite calls made on it,
\* whether it has been destroyed, and the unlock_file calls its destruction
\* made on the inner file.
NoCalls == [pread |-> 0, pwrite |-> 0, dropped |-> FALSE, drop_unlocks |-> 0]
NoCall == [op |-> "none", file |-> 0, res |-> "none"]

\* SimulatorIO::inject_fault(b): the facade's flag, then every file's.
InjectFault(b) ==
    /\ fault' = b
    /\ files' = [i \in 1 .. Len(files) |-> [files[i] EXCEPT !.fault = b]]

\* Bounds of the facade's use: the files the engine opens, and the calls that
\* bump a counter (pread, pwrite, sync, a faulted run_once) it makes in all.
MaxFiles == 2
MaxCalls == 2

RECURSIVE CallsOnFiles(_)
CallsOnFiles(fs) ==
    IF fs = <<>> THEN 0
    ELSE fs[1].nr_pread_faults + fs[1].reads + fs[1].nr_pwrite_faults + fs[1].writes
         + fs[1].syncs + CallsOnFiles(Tail(fs))

CallsMade == nr_run_once_faults + CallsOnFiles(files)

\* The facade and its files are in use: no file has been destroyed. The
\* facade holds a reference to every file it opened, so a file is destroyed
\* only once the facade is gone, and no call is made after that.
Alive == \A i \in 1 .. Len(calls) : ~calls[i].dropped

\* SimulatorIO::open_file
OpenFile ==
    /\ Alive
    /\ Len(files) < MaxFiles
    /\ files' = Append(files, NewFile)
    /\ calls' = Append(calls, NoCalls)
    /\ ioRes' = [op |-> "open_file", file |-> Len(files) + 1, res |-> "ok"]
    /\ UNCHANGED <<fault, nr_run_once_faults, simVars, genVars, testVars, runVars>>

\* SimulatorIO::inject_fault, called with either value
IoInjectFault ==
    /\ Alive
    /\ \E b \in BOOLEAN : InjectFault(b)
    /\ ioRes' = [op |-> "inject_fault", file |-> 0, res |-> "ok"]
    /\ UNCHANGED <<nr_run_once_faults, calls, simVars, genVars, testVars, runVars>>

\* A run_once that goes to the inner run_once whatever the flag.
RunOnce_AlwaysInner(flag, n) == [nr_run_once_faults |-> n, res |-> "inner"]

\* SimulatorIO::run_once with the facade's flag and nr_run_once_faults = n:
\* the counter after the call, and whether it returned the injected fault or
\* went on to self.inner.run_once().
RunOnce(flag, n) ==
    IF flag THEN [nr_run_once_faults |-> n + 1, res |-> "fault"]
    ELSE [nr_run_once_faults |-> n, res |-> "inner"]

\* SimulatorIO::run_once
IoRunOnce ==
    /\ Alive
    /\ CallsMade < MaxCalls
    /\ nr_run_once_faults' = RunOnce(fault, nr_run_once_faults).nr_run_once_faults
    /\ ioRes' = [op |-> "run_once", file |-> 0,
                 res |-> RunOnce(fault, nr_run_once_faults).res]
    /\ UNCHANGED <<fault, files, calls, simVars, genVars, testVars, runVars>>

\* A pread that, like lock_file, fails on the fault without counting it.
PreadFile_NoFaultCount(f) ==
    IF f.fault THEN f ELSE [f EXCEPT !.reads = @ + 1]

\* SimulatorFile::pread: the file after the call.
PreadFile(f) ==
    IF f.fault THEN [f EXCEPT !.nr_pread_faults = @ + 1]
    ELSE [f EXCEPT !.reads = @ + 1]

\* SimulatorFile::pwrite: the file after the call.
PwriteFile(f) ==
    IF f.fault THEN [f EXCEPT !.nr_pwrite_faults = @ + 1]
    ELSE [f EXCEPT !.writes = @ + 1]

\* What a call on a file returns: the injected fault, or the inner file's result.
FileResult(f) == IF f.fault THEN "fault" ELSE "inner"

Pread ==
    \E i \in 1 .. Len(files) :
        /\ Alive
        /\ CallsMade < MaxCalls
        /\ files' = [files EXCEPT ![i] = PreadFile(@)]
        /\ calls' = [calls EXCEPT ![i].pread = @ + 1]
        /\ ioRes' = [op |-> "pread", file |-> i, res |-> FileResult(files[i])]
        /\ UNCHANGED <<fault, nr_run_once_faults, simVars, genVars, testVars, runVars>>

Pwrite ==
    \E i \in 1 .. Len(files) :
        /\ Alive
        /\ CallsMade < MaxCalls
        /\ files' = [files EXCEPT ![i] = PwriteFile(@)]
        /\ calls' = [calls EXCEPT ![i].pwrite = @ + 1]
        /\ ioRes' = [op |-> "pwrite", file |-> i, res |-> FileResult(files[i])]
        /\ UNCHANGED <<fault, nr_run_once_faults, simVars, genVars, testVars, runVars>>

\* A sync that, like pread, fails on the fault and leaves syncs alone.
SyncFile_Faulting(f) ==
    IF f.fault THEN f ELSE [f EXCEPT !.syncs = @ + 1]

\* SimulatorFile::sync: the file after the call. The fault flag is not read.
SyncFile(f) == [f EXCEPT !.syncs = @ + 1]

\* SimulatorFile::sync
Sync ==
    \E i \in 1 .. Len(files) :
        /\ Alive
        /\ CallsMade < MaxCalls
        /\ files' = [files EXCEPT ![i] = SyncFile(@)]
        /\ ioRes' = [op |-> "sync", file |-> i, res |-> "inner"]
        /\ UNCHANGED <<fault, nr_run_once_faults, calls, simVars, genVars, testVars, runVars>>

\* SimulatorFile::lock_file
LockFile ==
    \E i \in 1 .. Len(files) :
        /\ Alive
        /\ ioRes' = [op |-> "lock_file", file |-> i, res |-> FileResult(files[i])]
        /\ UNCHANGED <<fault, nr_run_once_faults, files, calls, simVars, genVars, testVars, runVars>>

\* SimulatorFile::unlock_file
UnlockFile ==
    \E i \in 1 .. Len(files) :
        /\ Alive
        /\ ioRes' = [op |-> "unlock_file", file |-> i, res |-> FileResult(files[i])]
        /\ UNCHANGED <<fault, nr_run_once_faults, files, calls, simVars, genVars, testVars, runVars>>

\* A drop that unlocks through SimulatorFile::unlock_file, which fails on
\* the fault.
DropUnlock_Checked(f) == FileResult(f)

\* Drop for SimulatorFile: self.inner.unlock_file(), the inner file's, which
\* does not read the fault flag.
DropUnlock(f) == "inner"

\* Drop for SimulatorFile, at the teardown of the facade. A failed unlock
\* aborts on .expect("Failed to unlock file").
DropFile ==
    \E i \in 1 .. Len(files) :
        /\ ~calls[i].dropped
        /\ calls' = [calls EXCEPT ![i].dropped = TRUE,
                                  ![i].drop_unlocks =
                                      IF DropUnlock(files[i]) = "inner" THEN @ + 1 ELSE @]
        /\ ioRes' = [op |-> "drop", file |-> i, res |-> DropUnlock(files[i])]
        /\ UNCHANGED <<fault, nr_run_once_faults, files, simVars, genVars, testVars, runVars>>

(***************************************************************************)
(* The simulator: main's tick loop, process_connection, maybe_add_table    *)
(* and get_all_rows.                                                       *)
(***************************************************************************)
\* opts.max_connections as main sets it.
MaxConnections == 1

NoStmt == [purpose |-> "none", q |-> Query("None", "", NoTable, <<>>),
           table |-> NoTable, pending |-> <<>>, io |-> 0]

SimInit ==
    /\ opts \in [ticks : 0 .. MaxTicks, max_connections : {MaxConnections},
                 max_tables : 0 .. MaxTables]
    /\ tables = <<>>
    /\ connections = [i \in 1 .. MaxConnections |-> "Disconnected"]
    /\ conns = [cur |-> [i \in 1 .. MaxConnections |-> 0], closed |-> {}, used |-> 0]
    /\ tick = 0
    /\ pc = "loop"
    /\ stmt = NoStmt
    /\ out = <<>>
    /\ err = "none"
    /\ eng = [n \in TableNames |-> NoEngTable]
    /\ fault = FALSE
    /\ nr_run_once_faults = 0
    \* Database::open_file opens the database file through the facade
    /\ files = <<NewFile>>
    /\ calls = <<NoCalls>>
    /\ ioRes = NoCall

\* The row decoder of get_all_rows: an engine value becomes the simulator's
\* value of the same kind.
DecodeValue(el) ==
    CASE el.kind = "Null" -> Null
      [] el.kind = "Integer" -> IntegerValue(el.v)
      [] el.kind = "Float" -> FloatValue(el.v)
      [] el.kind = "Text" -> TextValue(el.v)
      [] el.kind = "Blob" -> BlobValue(el.v)

DecodeRow(row) == [c \in 1 .. Len(row) |-> DecodeValue(row[c])]

\* get_all_rows up to its rows_loop: conn.query(query) on engine e. An error
\* is returned to the caller, and from there to the tick loop, which breaks.
GetAllRows(e, purpose, q, cand, errSoFar) ==
    \/ /\ PrepareOk(e, q)
       /\ \E rows \in ResultRows(e, q) :
             stmt' = [purpose |-> purpose, q |-> q, table |-> cand,
                      pending |-> rows, io |-> 0]
       /\ pc' = "steps"
       /\ out' = <<>>
       /\ err' = errSoFar
       /\ UNCHANGED tables
    \/ /\ stmt' = NoStmt
       /\ pc' = "exit"
       /\ out' = <<>>
       /\ err' = "query"
       /\ UNCHANGED tables

\* A tick that connects and goes on to step a statement.
TickConnect_Submits ==
    /\ pc = "loop" /\ tick < opts.ticks
    /\ \E i \in 1 .. opts.max_connections :
          /\ connections[i] = "Disconnected"
          /\ connections' = [connections EXCEPT ![i] = "Connected"]
          \* env.db.connect(): a connection no slot has held
          /\ conns' = [conns EXCEPT !.cur[i] = tick + 1]
    /\ tick' = tick + 1
    /\ err' = "none"
    /\ pc' = "steps"
    /\ UNCHANGED <<opts, tables, stmt, out, eng, ioVars, genVars, testVars, runVars>>

\* The tick loop picks a Disconnected slot: db.connect().
TickConnect ==
    /\ pc = "loop" /\ tick < opts.ticks
    /\ \E i \in 1 .. opts.max_connections :
          /\ connections[i] = "Disconnected"
          /\ connections' = [connections EXCEPT ![i] = "Connected"]
          \* env.db.connect(): a connection no slot has held
          /\ conns' = [conns EXCEPT !.cur[i] = tick + 1]
    /\ tick' = tick + 1
    /\ err' = "none"
    /\ UNCHANGED <<opts, tables, pc, stmt, out, eng, ioVars, genVars, testVars, runVars>>

\* A disconnect that calls conn.close() and leaves the slot Connected.
TickDisconnect_SlotKept ==
    /\ pc = "loop" /\ tick < opts.ticks
    /\ \E i \in 1 .. opts.max_connections :
          /\ connections[i] = "Connected"
          /\ conns' = [conns EXCEPT !.closed = @ \cup {conns.cur[i]}]
    /\ tick' = tick + 1
    /\ err' = "none"
    /\ UNCHANGED <<opts, tables, connections, pc, stmt, out, eng, ioVars, genVars, testVars, runVars>>

\* The tick loop picks a Connected slot and draws disconnect: conn.close().
TickDisconnect ==
    /\ pc = "loop" /\ tick < opts.ticks
    /\ \E i \in 1 .. opts.max_connections :
          /\ connections[i] = "Connected"
          /\ connections' = [connections EXCEPT ![i] = "Disconnected"]
          /\ conns' = [conns EXCEPT !.closed = @ \cup {conns.cur[i]}, !.cur[i] = 0]
    /\ tick' = tick + 1
    /\ err' = "none"
    /\ UNCHANGED <<opts, tables, pc, stmt, out, eng, ioVars, genVars, testVars, runVars>>

\* process_connection calls maybe_add_table (the management draw, or no
\* table yet) and the shadow is full: nothing happens.
TickTablesFull ==
    /\ pc = "loop" /\ tick < opts.ticks
    /\ \E i \in 1 .. opts.max_connections : connections[i] = "Connected"
    /\ Len(tables) >= opts.max_tables
    /\ tick' = tick + 1
    /\ err' = "none"
    /\ UNCHANGED <<opts, conns, tables, connections, pc, stmt, out, eng, ioVars, genVars, testVars, runVars>>

\* A maybe_add_table that does not look at opts.max_tables.
TickAddTable_NoLimit ==
    /\ pc = "loop" /\ tick < opts.ticks
    /\ \E i \in 1 .. opts.max_connections :
          /\ connections[i] = "Connected"
          \* the statement is submitted on the connection of the slot
          /\ conns' = [conns EXCEPT !.used = conns.cur[i]]
    /\ tick' = tick + 1
    /\ \E t \in ArbitraryTables :
          GetAllRows(eng, "create", Query("Create", t.name, t, <<>>), t, "none")
    /\ UNCHANGED <<opts, connections, eng, ioVars, genVars, testVars, runVars>>

\* A maybe_add_table that drops the error of its CREATE TABLE and goes on
\* to the schema query.
TickAddTable_CreateErrorDropped ==
    /\ pc = "loop" /\ tick < opts.ticks
    /\ \E i \in 1 .. opts.max_connections :
          /\ connections[i] = "Connected"
          \* the statement is submitted on the connection of the slot
          /\ conns' = [conns EXCEPT !.used = conns.cur[i]]
    /\ Len(tables) < opts.max_tables
    /\ tick' = tick + 1
    /\ \E t \in ArbitraryTables :
          IF PrepareOk(eng, Query("Create", t.name, t, <<>>))
          THEN GetAllRows(eng, "create", Query("Create", t.name, t, <<>>), t, "none")
          ELSE GetAllRows(eng, "schema", SchemaQuery(t), t, "none")
    /\ UNCHANGED <<opts, connections, eng, ioVars, genVars, testVars, runVars>>

\* process_connection calls maybe_add_table, which builds a table and
\* submits its CREATE TABLE.
TickAddTable ==
    /\ pc = "loop" /\ tick < opts.ticks
    /\ \E i \in 1 .. opts.max_connections :
          /\ connections[i] = "Connected"
          \* the statement is submitted on the connection of the slot
          /\ conns' = [conns EXCEPT !.used = conns.cur[i]]
    /\ Len(tables) < opts.max_tables
    /\ tick' = tick + 1
    /\ \E t \in ArbitraryTables :
          GetAllRows(eng, "create", Query("Create", t.name, t, <<>>), t, "none")
    /\ UNCHANGED <<opts, connections, eng, ioVars, genVars, testVars, runVars>>

\* A workload query submitted without a new iteration of the tick loop.
TickQuery_SameTick ==
    /\ pc = "loop" /\ tick < opts.ticks
    /\ \E i \in 1 .. opts.max_connections :
          /\ connections[i] = "Connected"
          \* the statement is submitted on the connection of the slot
          /\ conns' = [conns EXCEPT !.used = conns.cur[i]]
    /\ tables # <<>>
    /\ \E q \in QueryOf(tables[1]) :
          /\ q.kind = "Insert" => Len(eng[q.table].rows) < MaxEngRows
          /\ GetAllRows(eng, "query", q, NoTable, "none")
    /\ UNCHANGED <<opts, connections, tick, eng, ioVars, genVars, testVars, runVars>>

\* A process_connection that draws the table of its query from env.tables.
TickQuery_AnyTable ==
    /\ pc = "loop" /\ tick < opts.ticks
    /\ \E i \in 1 .. opts.max_connections :
          /\ connections[i] = "Connected"
          \* the statement is submitted on the connection of the slot
          /\ conns' = [conns EXCEPT !.used = conns.cur[i]]
    /\ tables # <<>>
    /\ tick' = tick + 1
    /\ \E n \in 1 .. Len(tables) : \E q \in QueryOf(tables[n]) :
          /\ q.kind = "Insert" => Len(eng[q.table].rows) < MaxEngRows
          /\ GetAllRows(eng, "query", q, NoTable, "none")
    /\ UNCHANGED <<opts, connections, eng, ioVars, genVars, runVars, testVars>>

\* process_connection draws a query for tables[0] and submits it.
TickQuery ==
    /\ pc = "loop" /\ tick < opts.ticks
    /\ \E i \in 1 .. opts.max_connections :
          /\ connections[i] = "Connected"
          \* the statement is submitted on the connection of the slot
          /\ conns' = [conns EXCEPT !.used = conns.cur[i]]
    /\ tables # <<>>
    /\ tick' = tick + 1
    /\ \E q \in QueryOf(tables[1]) :
          /\ q.kind = "Insert" => Len(eng[q.table].rows) < MaxEngRows
          /\ GetAllRows(eng, "query", q, NoTable, "none")
    /\ UNCHANGED <<opts, connections, eng, ioVars, genVars, testVars, runVars>>

\* The second assertion of maybe_add_table, on the stored DDL as_text.
DdlAssertion(as_text, t) == as_text # ToCreateStr(t)

\* get_all_rows returned Ok(rows) with the engine at e: what its caller does.
\* maybe_add_table goes on to the schema query after its CREATE TABLE, and to
\* its assertions and the shadow after the schema query; process_connection
\* only logs the rows of a workload query.
Returned(e, rows, errSoFar) ==
    IF stmt.purpose = "create"
    THEN GetAllRows(e, "schema", SchemaQuery(stmt.table), stmt.table, errSoFar)
    ELSE /\ err' = errSoFar
         /\ out' = rows
         /\ IF stmt.purpose = "query"
            THEN pc' = "loop" /\ stmt' = NoStmt /\ UNCHANGED tables
            ELSE IF /\ Len(rows) = 1
                    /\ rows[1][1].kind = "Text"
                    /\ DdlAssertion(rows[1][1].v, stmt.table)
                 THEN /\ tables' = Append(tables, stmt.table)
                      /\ pc' = "loop"
                      /\ stmt' = NoStmt
                 ELSE pc' = "panicked" /\ UNCHANGED <<stmt, tables>>

\* rows_loop: inject_fault, then next_row yields a row, which is decoded.
StepRow ==
    /\ pc = "steps"
    /\ stmt.pending # <<>>
    /\ \E b \in BOOLEAN : InjectFault(b)
    /\ out' = Append(out, DecodeRow(Head(stmt.pending)))
    /\ stmt' = [stmt EXCEPT !.pending = Tail(@)]
    /\ UNCHANGED <<opts, conns, tables, connections, tick, pc, err, eng,
                   nr_run_once_faults, calls, ioRes, genVars, testVars, runVars>>

\* SimulatorIO::run_once: TRUE when it returns the injected fault.
RunOnceFails(flag) == flag

\* A rows_loop that counts a run_once error and goes on stepping the
\* statement.
StepIO_Retries ==
    /\ pc = "steps"
    /\ stmt.io < MaxIO
    /\ \E b \in BOOLEAN :
          /\ InjectFault(b)
          /\ nr_run_once_faults' =
                 IF RunOnceFails(b) THEN nr_run_once_faults + 1 ELSE nr_run_once_faults
          /\ stmt' = [stmt EXCEPT !.io = @ + 1]
          /\ UNCHANGED <<tables, pc, out, err>>
    /\ UNCHANGED <<opts, conns, connections, tick, eng, calls, ioRes, genVars, testVars, runVars>>

\* rows_loop: inject_fault, then next_row reports an I/O wait: inject_fault
\* again and run_once. A run_once error ends the loop, and get_all_rows
\* returns the rows decoded so far.
StepIO ==
    /\ pc = "steps"
    /\ stmt.io < MaxIO
    /\ \E b \in BOOLEAN :
          /\ InjectFault(b)
          /\ IF RunOnceFails(b)
             THEN /\ nr_run_once_faults' = nr_run_once_faults + 1
                  /\ Returned(eng, out, "run_once")
             ELSE /\ stmt' = [stmt EXCEPT !.io = @ + 1]
                  /\ UNCHANGED <<nr_run_once_faults, tables, pc, out, err>>
    /\ UNCHANGED <<opts, conns, connections, tick, eng, calls, ioRes, genVars, testVars, runVars>>

\* rows_loop: inject_fault, then next_row reports Done: the statement has
\* taken effect and get_all_rows returns.
StepDone ==
    /\ pc = "steps"
    /\ stmt.pending = <<>>
    /\ \E b \in BOOLEAN : InjectFault(b)
    /\ \E e \in Applied(eng, stmt.q) :
          /\ eng' = e
          /\ Returned(e, out, err)
    /\ UNCHANGED <<opts, conns, connections, tick, nr_run_once_faults, calls, ioRes, genVars, testVars, runVars>>

\* A rows_loop that logs a next_row error and lets the tick loop go on.
StepErr_Swallowed ==
    /\ pc = "steps"
    /\ \E b \in BOOLEAN : InjectFault(b)
    /\ pc' = "loop"
    /\ err' = "next_row"
    /\ stmt' = NoStmt
    /\ UNCHANGED <<opts, conns, tables, connections, tick, out, eng,
                   nr_run_once_faults, calls, ioRes, genVars, testVars, runVars>>

\* rows_loop: inject_fault, then next_row returns an error, which `?` hands
\* to the caller and the tick loop breaks on.
StepErr ==
    /\ pc = "steps"
    /\ \E b \in BOOLEAN : InjectFault(b)
    /\ pc' = "exit"
    /\ err' = "next_row"
    /\ stmt' = NoStmt
    /\ UNCHANGED <<opts, conns, tables, connections, tick, out, eng,
                   nr_run_once_faults, calls, ioRes, genVars, testVars, runVars>>

\* The tick loop has run opts.ticks iterations.
LoopEnd ==
    /\ pc = "loop" /\ tick = opts.ticks
    /\ pc' = "exit"
    /\ UNCHANGED <<opts, conns, tables, connections, tick, stmt, out, err, eng, ioVars, genVars, testVars, runVars>>

\* env.io.print_stats() after the loop.
PrintStats ==
    /\ pc = "exit"
    /\ pc' = "done"
    /\ UNCHANGED <<opts, conns, tables, connections, tick, stmt, out, err, eng, ioVars, genVars, testVars, runVars>>

(***************************************************************************)
(* What main writes to stdout, for two runs given the same SEED.          *)
(***************************************************************************)
\* The greatest SEED, and the number of names TempDir::new() chooses from.
MaxSeed == 1
MaxTempDirs == 2

NrRuns == 2
Seeds == 0 .. MaxSeed
TempDirs == 1 .. MaxTempDirs

\* What the random stream of the seed settles: the opts main draws, and the
\* statistics the tick loop ends with against a deterministic engine.
Draws ==
    [opts : [ticks : 0 .. MaxTicks, max_connections : {MaxConnections},
             max_tables : 0 .. MaxTables],
     run_once_faults : 0 .. MaxIO]

NoDraw == [opts |-> [ticks |-> 0, max_connections |-> MaxConnections, max_tables |-> 0],
           run_once_faults |-> 0]

Line(what, v) == [line |-> what, v |-> v]

\* println!("Seed: {}", seed)
RunPrintSeed ==
    \E r \in 1 .. NrRuns :
        /\ runs[r].pc = "start"
        /\ runs' = [runs EXCEPT ![r].pc = "seeded",
                                ![r].stdout = Append(@, Line("Seed", seed))]
        /\ UNCHANGED <<seed, drawn, simVars, ioVars, genVars, testVars>>

\* TempDir::new() names a fresh directory; println!("path to db '{:?}'", path)
RunOpenDb ==
    \E r \in 1 .. NrRuns : \E d \in TempDirs :
        /\ runs[r].pc = "seeded"
        /\ runs' = [runs EXCEPT ![r].pc = "opened",
                                ![r].path = d,
                                ![r].stdout = Append(@, Line("path to db", d))]
        /\ UNCHANGED <<seed, drawn, simVars, ioVars, genVars, testVars>>

\* println!("Initial opts {:?}", env.opts)
RunPrintOpts ==
    \E r \in 1 .. NrRuns :
        /\ runs[r].pc = "opened"
        /\ runs' = [runs EXCEPT ![r].pc = "looping",
                                ![r].stdout = Append(@, Line("Initial opts", drawn.opts))]
        /\ UNCHANGED <<seed, drawn, simVars, ioVars, genVars, testVars>>

\* The tick loop, then env.io.print_stats()
RunPrintStats ==
    \E r \in 1 .. NrRuns :
        /\ runs[r].pc = "looping"
        /\ runs' = [runs EXCEPT ![r].pc = "done",
                                ![r].stdout = Append(@, Line("run_once faults",
                                                            drawn.run_once_faults))]
        /\ UNCHANGED <<seed, drawn, simVars, ioVars, genVars, testVars>>

(***************************************************************************)
(* Prepared statements under the integration tests of                      *)
(* tests/integration/query_processing/test_read_path.rs: the tests are    *)
(* taken from their source, the engine's statements (prepare, bind_at,     *)
(* step, reset, parameters) from what the tests expect of them.            *)
(***************************************************************************)
\* The IO results one stepping loop is handed before its statement goes on.
MaxStepIO == 2

\* An expression of a VALUES list or a select list: `?`, or an integer.
Param == [param |-> TRUE, v |-> 0]
Const(n) == [param |-> FALSE, v |-> n]

\* "create table test (a integer, b integer, c integer, d integer);"
TestColumns == <<"a", "b", "c", "d">>

\* The tests, each with its statement, the arguments it binds (per loop),
\* the rows its assert_eq's expect and the parameters().count() it expects.
TestCases ==
    {
     \* test_statement_reset_bind: "select ?", bound to 1, stepped, reset, bound
     \* to 2 and stepped again; the row is asserted to hold 1, then 2. The
     \* test asserts no parameters().count().
     [name |-> "test_statement_reset_bind", sql |-> "select_param",
      cols |-> <<>>, vals |-> <<<<Param>>>>,
      args |-> <<<<1>>, <<2>>>>,
      expect |-> <<<<1>>, <<2>>>>,
      count |-> 0],
     \* "insert into test (d, c, a, b) values (22, ?, 7, ?);"
     [name |-> "test_insert_parameter_remap", sql |-> "insert",
      cols |-> <<"d", "c", "a", "b">>,
      vals |-> <<<<Const(22), Param, Const(7), Param>>>>,
      args |-> <<<<111, 222>>>>,
      expect |-> <<<<7, 222, 111, 22>>>>,
      count |-> 2],
     \* "insert into test (d, a, c, b) values (?, ?, ?, ?);"
     [name |-> "test_insert_parameter_remap_all_params", sql |-> "insert",
      cols |-> <<"d", "a", "c", "b">>,
      vals |-> <<<<Param, Param, Param, Param>>>>,
      args |-> <<<<999, 111, 333, 444>>>>,
      expect |-> <<<<111, 444, 333, 999>>>>,
      count |-> 4],
     \* "insert into test (d,c,b,a) values (?, ?, ?, ?);"
     [name |-> "test_insert_parameter_multiple_remap_backwards", sql |-> "insert",
      cols |-> <<"d", "c", "b", "a">>,
      vals |-> <<<<Param, Param, Param, Param>>>>,
      args |-> <<<<444, 333, 222, 111>>>>,
      expect |-> <<<<111, 222, 333, 444>>>>,
      count |-> 4],
     \* "insert into test (b,a,d,c) values (?, ?, ?, ?), (?, ?, ?, ?);"
     [name |-> "test_insert_parameter_multiple_row", sql |-> "insert",
      cols |-> <<"b", "a", "d", "c">>,
      vals |-> <<<<Param, Param, Param, Param>>, <<Param, Param, Param, Param>>>>,
      args |-> <<<<222, 111, 444, 333, 666, 555, 888, 777>>>>,
      expect |-> <<<<111, 222, 333, 444>>, <<555, 666, 777, 888>>>>,
      count |-> 8]
    }

NoTest ==
    [name |-> "none", sql |-> "none", cols |-> <<>>, vals |-> <<>>,
     args |-> <<>>, expect |-> <<>>, count |-> 0]

NoStatement ==
    [sql |-> "none", cols |-> <<>>, vals |-> <<>>, params |-> <<>>,
     yielded |-> 0, io |-> 0]

\* The places of a statement's expressions, row by row.
Places(vals) == {<<r, k>> : r \in 1 .. Len(vals), k \in 1 .. Len(vals[1])}

\* The number of the anonymous parameter at a place: the i-th `?` of the
\* statement, counted across all VALUES rows, is parameter i.
ParamNumber(vals, p) ==
    Cardinality({q \in Places(vals) :
                    /\ vals[q[1]][q[2]].param
                    /\ q[1] < p[1] \/ (q[1] = p[1] /\ q[2] <= p[2])})

\* Statement::parameters().count(): the distinct parameters of the statement.
ParamCount(vals) ==
    IF vals = <<>> THEN 0
    ELSE Cardinality({q \in Places(vals) : vals[q[1]][q[2]].param})

\* Connection::prepare: nothing bound, nothing stepped.
Prepare(sql, cols, vals) ==
    [sql |-> sql, cols |-> cols, vals |-> vals,
     params |-> [i \in 1 .. ParamCount(vals) |-> Null],
     yielded |-> 0, io |-> 0]

\* A bind_at that leaves a parameter that is bound as it is.
BindAt_FirstWins(st, idx, v) ==
    IF st.params[idx] = Null THEN [st EXCEPT !.params[idx] = v] ELSE st

\* Statement::bind_at(idx, v)
BindAt(st, idx, v) == [st EXCEPT !.params[idx] = v]

\* The test's bind loop: bind_at(i, args[i]) for every argument in turn.
RECURSIVE BindAll(_, _, _)
BindAll(st, args, i) ==
    IF i > Len(args) THEN st
    ELSE BindAll(BindAt(st, i, IntegerValue(args[i])), args, i + 1)

\* Statement::reset: the statement is stepped from its start again.
ResetStmt(st) == [st EXCEPT !.yielded = 0, !.io = 0]

\* The value of the expression at a place under the statement's bindings.
ExprValue(st, p) ==
    IF st.vals[p[1]][p[2]].param THEN st.params[ParamNumber(st.vals, p)]
    ELSE IntegerValue(st.vals[p[1]][p[2]].v)

\* An INSERT that stores the k-th expression in the k-th column of the table.
InsertRows_ByTableColumn(st) ==
    [r \in 1 .. Len(st.vals) |-> [c \in 1 .. Len(TestColumns) |-> ExprValue(st, <<r, c>>)]]

\* The rows an INSERT with a column list stores: the k-th expression of a
\* VALUES row goes to the k-th listed column; a column not listed is Null.
InsertRows(st) ==
    [r \in 1 .. Len(st.vals) |->
        [c \in 1 .. Len(TestColumns) |->
            IF \E k \in 1 .. Len(st.cols) : st.cols[k] = TestColumns[c]
            THEN ExprValue(st, <<r, CHOOSE k \in 1 .. Len(st.cols) :
                                        st.cols[k] = TestColumns[c]>>)
            ELSE Null]]

\* The rows a statement yields before Done.
StmtRows(st, db) ==
    CASE st.sql = "select_param" -> <<[k \in 1 .. Len(st.vals[1]) |-> ExprValue(st, <<1, k>>)]>>
      [] st.sql = "select_all" -> db
      [] OTHER -> <<>>

\* The row a test's assert_eq's expect of the i-th row (from 0) of a loop:
\* the reset test expects its first argument in the first loop and its second
\* in the second; test_insert_parameter_multiple_row tells row 0 from the
\* rest; the other tests expect the one row.
ExpectedRow(case, round, i) ==
    LET ints == IF case.sql = "select_param" THEN case.expect[round]
                ELSE IF i = 0 THEN case.expect[1]
                ELSE case.expect[Len(case.expect)]
    IN  [k \in 1 .. Len(ints) |-> IntegerValue(ints[k])]

\* conn.prepare(..) and the bind loop before the first stepping.
TestBind ==
    /\ tpc = "bind1"
    /\ tins' = BindAll(Prepare(tcase.sql, tcase.cols, tcase.vals), tcase.args[1], 1)
    /\ tpc' = "loop1"
    /\ UNCHANGED <<tcase, tsel, tdb, trows, genVars, simVars, ioVars, runVars>>

\* StepResult::IO => tmp_db.io.run_once()
TestStepIO ==
    /\ tpc \in {"loop1", "loop2"}
    /\ tins.io < MaxStepIO
    /\ tins' = [tins EXCEPT !.io = @ + 1]
    /\ UNCHANGED <<tcase, tpc, tsel, tdb, trows, genVars, simVars, ioVars, runVars>>

\* StepResult::Row in a loop of test_statement_reset_bind: the row is
\* asserted to hold the value bound for this loop.
TestRow ==
    /\ tpc \in {"loop1", "loop2"}
    /\ tins.yielded < Len(StmtRows(tins, tdb))
    /\ LET row == StmtRows(tins, tdb)[tins.yielded + 1]
       IN  /\ trows' = Append(trows, row)
           /\ tpc' = IF row = ExpectedRow(tcase, IF tpc = "loop2" THEN 2 ELSE 1, tins.yielded)
                     THEN tpc ELSE "failed"
    /\ tins' = [tins EXCEPT !.yielded = @ + 1]
    /\ UNCHANGED <<tcase, tsel, tdb, genVars, simVars, ioVars, runVars>>

\* The first loop of test_statement_reset_bind ends; the second ends the test.
TestParamDone ==
    /\ tpc \in {"loop1", "loop2"}
    /\ tins.sql = "select_param"
    /\ tins.yielded = Len(StmtRows(tins, tdb))
    /\ tpc' = IF tpc = "loop1" THEN "reset" ELSE "passed"
    /\ UNCHANGED <<tcase, tins, tsel, tdb, trows, genVars, simVars, ioVars, runVars>>

\* stmt.reset(); stmt.bind_at(1, Integer(2))
TestResetBind ==
    /\ tpc = "reset"
    /\ tins' = BindAll(ResetStmt(tins), tcase.args[2], 1)
    /\ tpc' = "loop2"
    /\ UNCHANGED <<tcase, tsel, tdb, trows, genVars, simVars, ioVars, runVars>>

\* The INSERT is done: its rows are in the table, and the test prepares
\* "select a, b, c, d from test;".
TestInsertDone ==
    /\ tpc = "loop1"
    /\ tins.sql = "insert"
    /\ tdb' = tdb \o InsertRows(tins)
    /\ tsel' = Prepare("select_all", TestColumns, <<>>)
    /\ tpc' = "select"
    /\ UNCHANGED <<tcase, tins, trows, genVars, simVars, ioVars, runVars>>

\* StepResult::IO in the select loop
TestSelectIO ==
    /\ tpc = "select"
    /\ tsel.io < MaxStepIO
    /\ tsel' = [tsel EXCEPT !.io = @ + 1]
    /\ UNCHANGED <<tcase, tpc, tins, tdb, trows, genVars, simVars, ioVars, runVars>>

\* StepResult::Row in the select loop: the four assert_eq's on the row.
TestSelectRow ==
    /\ tpc = "select"
    /\ tsel.yielded < Len(StmtRows(tsel, tdb))
    /\ LET row == StmtRows(tsel, tdb)[tsel.yielded + 1]
       IN  /\ trows' = Append(trows, row)
           /\ tpc' = IF row = ExpectedRow(tcase, 1, tsel.yielded)
                     THEN tpc ELSE "failed"
    /\ tsel' = [tsel EXCEPT !.yielded = @ + 1]
    /\ UNCHANGED <<tcase, tins, tdb, genVars, simVars, ioVars, runVars>>

\* The select loop ends: assert_eq!(ins.parameters().count(), ..)
TestSelectDone ==
    /\ tpc = "select"
    /\ tsel.yielded = Len(StmtRows(tsel, tdb))
    /\ tpc' = IF ParamCount(tins.vals) = tcase.count THEN "passed" ELSE "failed"
    /\ UNCHANGED <<tcase, tins, tsel, tdb, trows, genVars, simVars, ioVars, runVars>>

TestNext ==
    \/ TestBind \/ TestStepIO \/ TestRow \/ TestParamDone \/ TestResetBind
    \/ TestInsertDone \/ TestSelectIO \/ TestSelectRow \/ TestSelectDone

(***************************************************************************)
(* Specifications.                                                         *)
(***************************************************************************)
GenIdle ==
    /\ genT = NoTable
    /\ genWant = FALSE
    /\ genPc = "idle"
    /\ genKind = "none"
    /\ genArg = NoValue
    /\ genOut = NoPred
    /\ genBools = <<>>

SimIdle ==
    /\ opts = [ticks |-> 0, max_connections |-> MaxConnections, max_tables |-> 0]
    /\ tables = <<>>
    /\ connections = <<>>
    /\ conns = [cur |-> <<>>, closed |-> {}, used |-> 0]
    /\ tick = 0
    /\ pc = "idle"
    /\ stmt = NoStmt
    /\ out = <<>>
    /\ err = "none"
    /\ eng = [n \in TableNames |-> NoEngTable]

RunIdle ==
    /\ seed = 0
    /\ drawn = NoDraw
    /\ runs = <<>>

TestIdle ==
    /\ tcase = NoTest
    /\ tpc = "idle"
    /\ tins = NoStatement
    /\ tsel = NoStatement
    /\ tdb = <<>>
    /\ trows = <<>>

IoIdle ==
    /\ fault = FALSE
    /\ nr_run_once_faults = 0
    /\ files = <<>>
    /\ calls = <<>>
    /\ ioRes = NoCall

TestInit ==
    /\ tcase \in TestCases
    /\ tpc = "bind1"
    /\ tins = NoStatement
    /\ tsel = NoStatement
    /\ tdb = <<>>
    /\ trows = <<>>
    /\ GenIdle /\ SimIdle /\ IoIdle /\ RunIdle

GenInit ==
    /\ genT \in GenTables(MaxCols)
    /\ genWant \in BOOLEAN
    /\ genPc = "start"
    /\ genKind = "none"
    /\ genArg = NoValue
    /\ genOut = NoPred
    /\ genBools = <<>>
    /\ SimIdle /\ IoIdle /\ RunIdle /\ TestIdle

PredInit ==
    /\ genT \in PredTables(1)
    /\ genWant \in BOOLEAN
    /\ genPc = "start"
    /\ genKind = "none"
    /\ genArg = NoValue
    /\ genOut = NoPred
    /\ genBools = <<>>
    /\ SimIdle /\ IoIdle /\ RunIdle /\ TestIdle

Init == SimInit /\ GenIdle /\ RunIdle /\ TestIdle

Next ==
    \/ TickConnect \/ TickDisconnect \/ TickTablesFull \/ TickAddTable \/ TickQuery
    \/ StepRow \/ StepIO \/ StepDone \/ StepErr
    \/ LoopEnd \/ PrintStats

IoInit == IoIdle /\ SimIdle /\ GenIdle /\ RunIdle /\ TestIdle

RunsInit ==
    /\ seed \in Seeds
    /\ drawn \in Draws
    /\ runs = [r \in 1 .. NrRuns |-> [pc |-> "start", path |-> 0, stdout |-> <<>>]]
    /\ SimIdle /\ IoIdle /\ GenIdle /\ TestIdle

RunsNext == RunPrintSeed \/ RunOpenDb \/ RunPrintOpts \/ RunPrintStats

IoNext ==
    \/ OpenFile \/ IoInjectFault \/ IoRunOnce
    \/ Pread \/ Pwrite \/ Sync \/ LockFile \/ UnlockFile \/ DropFile

GenNext == ApplyLT \/ ApplyGT \/ ApplySimple \/ ApplyQuery \/ ApplyCompare
PredNext == CompoundStart \/ CompoundChild

\* The simulator's run.
Spec == Init /\ [][Next]_vars

\* The tick loop with the run going on as long as it has a step to take: the
\* process is not stopped from outside, and a statement does not step forever.
SpecLive == Init /\ [][Next]_vars /\ WF_vars(Next)
\* The tests of prepared statements, each under every placing of the IO
\* results of its stepping loops.
SpecTest == TestInit /\ [][TestNext]_vars
\* Two runs of main given the same SEED.
SpecSeed == RunsInit /\ [][RunsNext]_vars
\* The facade under any sequence of calls.
SpecIO == IoInit /\ [][IoNext]_vars
\* The value and simple-predicate generators on drawn tables.
SpecGen == GenInit /\ [][GenNext]_vars
\* The compound-predicate builder on drawn tables.
SpecPred == PredInit /\ [][PredNext]_vars

(***************************************************************************)
(* Properties.                                                             *)
(***************************************************************************)
\* C1: maybe_add_table appends a table to env.tables exactly when the schema
\* query returned one row whose text equals the CREATE TABLE string issued:
\* equal text passes the assertion and appends, different text fails it and
\* appends nothing.
C1_AppendIffDdlEqual ==
    [][(pc = "steps" /\ stmt.purpose = "schema" /\ pc' \in {"loop", "panicked"})
         => (tables' = Append(tables, stmt.table)
               <=> /\ Len(out') = 1
                   /\ out'[1][1] = TextValue(ToCreateStr(stmt.table)))]_vars

\* C2: a predicate the compound builder returns for (T, true), T with at
\* least one row, evaluates to true on every row of T.
C2_SoundForTrue ==
    (genKind = "Compound" /\ genPc = "done" /\ genWant /\ genT.rows # <<>>)
        => \A r \in 1 .. Len(genT.rows) : Eval(genOut, genT, genT.rows[r])

\* C3: a predicate the compound builder returns for (T, false), T with at
\* least one row, evaluates to false on every row of T.
C3_SoundForFalse ==
    (genKind = "Compound" /\ genPc = "done" /\ ~genWant /\ genT.rows # <<>>)
        => \A r \in 1 .. Len(genT.rows) : ~Eval(genOut, genT, genT.rows[r])

\* C4: between ticks, the shadow rows of every table of env.tables are the
\* rows the engine holds for it, in insertion order: every INSERT executed
\* on the engine has appended its row to the shadow.
C4_ShadowEquivalence ==
    pc = "loop" =>
        \A i \in 1 .. Len(tables) : tables[i].rows = eng[tables[i].name].rows

\* C5: between ticks, the tables created in the engine are exactly the
\* tables of env.tables.
C5_LockStep ==
    pc = "loop" =>
        {n \in TableNames : eng[n].exists} = {tables[i].name : i \in 1 .. Len(tables)}

\* C6: on every file, nr_pread_faults + reads is the number of pread calls
\* made on it and nr_pwrite_faults + writes the number of pwrite calls,
\* whatever pread, pwrite, sync, lock, unlock and inject_fault calls were made.
C6_FaultAccounting ==
    \A i \in 1 .. Len(files) :
        /\ files[i].nr_pread_faults + files[i].reads = calls[i].pread
        /\ files[i].nr_pwrite_faults + files[i].writes = calls[i].pwrite

\* A file has seen a faulted pread and then, the fault cleared, a successful
\* pwrite, and the last call was a lock or an unlock.
C6_Witness ==
    /\ ioRes.op \in {"lock_file", "unlock_file"}
    /\ \E i \in 1 .. Len(files) :
          /\ files[i].nr_pread_faults = 1
          /\ files[i].writes = 1
          /\ ioRes.file = i

\* C7: two runs given the same SEED, against a deterministic engine, write
\* the same stdout: the seed line, the database path line, the opts dump and
\* the statistics.
C7_SeedDeterminism ==
    (\A r \in 1 .. NrRuns : runs[r].pc = "done") =>
        \A r1, r2 \in 1 .. NrRuns : runs[r1].stdout = runs[r2].stdout

C9_Buckets ==
    (pc = "steps" /\ stmt.purpose = "query") =>
        /\ Cardinality(QueryBuckets) = 301
        /\ Cardinality({b \in QueryBuckets : QueryKind(b) = "Create"}) = 1
        /\ \A k \in {"Select", "Insert", "Delete"} :
              Cardinality({b \in QueryBuckets : QueryKind(b) = k}) = 100
        /\ stmt.q.kind \in {"Create", "Select", "Insert", "Delete"}

\* C10: for an Integer v strictly between the least and the greatest, what
\* LTValue::arbitrary_of(v) returns is an Integer below v and what
\* GTValue::arbitrary_of(v) returns is an Integer in [v+1, MAX].
C10_StrictIntegers ==
    (/\ genPc = "done" /\ genKind \in {"LT", "GT"}
     /\ genArg.kind = "Integer" /\ IntMin < genArg.v /\ genArg.v < IntMax)
        => /\ genOut.kind = "Integer"
           /\ genKind = "LT" => genOut.v < genArg.v
           /\ genKind = "GT" => (genArg.v + 1 <= genOut.v /\ genOut.v <= IntMax)

\* The injected faults the facade has counted.
RECURSIVE FileFaults(_)
FileFaults(fs) ==
    IF fs = <<>> THEN 0
    ELSE fs[1].nr_pread_faults + fs[1].nr_pwrite_faults + FileFaults(Tail(fs))

FaultsCounted == nr_run_once_faults + FileFaults(files)

\* C11: every call on the facade that returns the injected fault (pread,
\* pwrite, lock_file, unlock_file, run_once) increments a fault counter, so
\* the faults returned are the faults counted.
C11_EveryFaultCounted ==
    [][ioRes'.res = "fault" => FaultsCounted' = FaultsCounted + 1]_vars

\* C12: run_once with the flag set adds exactly 1 to nr_run_once_faults and
\* returns the injected fault without reaching the inner run_once; with the
\* flag clear it goes to the inner run_once and leaves the counter alone.
C12_RunOnce ==
    [][ioRes'.op = "run_once" =>
          IF fault
          THEN nr_run_once_faults' = nr_run_once_faults + 1 /\ ioRes'.res = "fault"
          ELSE nr_run_once_faults' = nr_run_once_faults /\ ioRes'.res = "inner"]_vars

\* run_once has returned the injected fault and counted it.
C12_Witness ==
    ioRes.op = "run_once" /\ ioRes.res = "fault" /\ nr_run_once_faults = 1

\* C13: whatever open_file and inject_fault calls were made, the fault flag
\* of every registered file is the facade's flag.
C13_Broadcast ==
    \A i \in 1 .. Len(files) : files[i].fault = fault

\* C14: env.tables never holds more than opts.max_tables tables;
\* maybe_add_table has a CREATE TABLE or its schema query under way only
\* while env.tables is below max_tables; with max_tables = 0 no statement is
\* ever submitted to the engine.
C14_MaxTables ==
    /\ Len(tables) <= opts.max_tables
    /\ stmt.purpose \in {"create", "schema"} => Len(tables) < opts.max_tables
    /\ opts.max_tables = 0 =>
          /\ stmt = NoStmt /\ pc \in {"loop", "exit", "done"} /\ err = "none"
          /\ \A n \in TableNames : ~eng[n].exists

\* With max_tables = 0, a connected tick has called maybe_add_table.
C14_Witness ==
    /\ opts.max_tables = 0 /\ tick = 2
    /\ \E i \in 1 .. Len(connections) : connections[i] = "Connected"

\* C15: a tick performs at most one engine interaction: every statement
\* handed to conn.query opens a new tick.
C15_OneInteractionPerTick ==
    [][(stmt'.purpose # "none" /\ stmt'.q # stmt.q) => tick' = tick + 1]_vars

\* C15, amended: every statement handed to conn.query opens a new tick,
\* except the schema query of maybe_add_table, which follows its CREATE
\* TABLE in the same tick.
C15_OneOrTwoPerTick ==
    [][(stmt'.purpose # "none" /\ stmt'.q # stmt.q) =>
          \/ tick' = tick + 1
          \/ stmt.purpose = "create" /\ stmt'.purpose = "schema" /\ tick' = tick]_vars

\* maybe_add_table is stepping its schema query, the second statement of
\* the tick.
C15_Witness ==
    pc = "steps" /\ stmt.purpose = "schema" /\ stmt.q.kind = "Schema"

\* C16: every slot starts Disconnected; a tick that finds the slots
\* Disconnected connects one and submits no statement; a slot changes only
\* by a tick that connects it or disconnects it, and that tick submits no
\* statement.
C16_Lifecycle ==
    /\ \A i \in 1 .. Len(connections) : connections[i] = "Disconnected"
    /\ [][LET slots == 1 .. Len(connections)
              quiet == UNCHANGED <<stmt, pc, out, eng, tables>>
          IN  /\ (tick' # tick /\ \A i \in slots : connections[i] = "Disconnected")
                    => (quiet /\ \E i \in slots :
                            connections' = [connections EXCEPT ![i] = "Connected"])
              /\ (connections' # connections)
                    => (tick' = tick + 1 /\ quiet /\ \E i \in slots :
                            connections' =
                                [connections EXCEPT ![i] = IF @ = "Connected"
                                                          THEN "Disconnected"
                                                          ELSE "Connected"])]_vars

\* A slot was connected by one tick and disconnected by the next.
C16_Witness ==
    tick = 2 /\ pc = "loop" /\ connections[1] = "Disconnected"

\* C17: in a simple predicate built for (T, want), T with rows, the value of
\* a Gt is a strictly-less variant of a value of the column when want is true
\* and a strictly-greater variant when want is false; for Lt it is mirrored.
C17_GtLtVariants ==
    (genKind = "Simple" /\ genPc = "done" /\ genT.rows # <<>>) =>
        \E c \in 1 .. Len(genT.columns) :
            /\ genT.columns[c].name = genOut.col
            /\ genOut.op = "Gt" =>
                  genOut.val \in (IF genWant THEN LTValueOfVec(ColumnValues(genT, c))
                                             ELSE GTValueOfVec(ColumnValues(genT, c)))
            /\ genOut.op = "Lt" =>
                  genOut.val \in (IF genWant THEN GTValueOfVec(ColumnValues(genT, c))
                                             ELSE LTValueOfVec(ColumnValues(genT, c)))

\* C18: the compound builder hands truth values to between 1 and 3
\* children: all true for And/true, at least one false for And/false, at
\* least one true for Or/true, all false for Or/false; what it returns is an
\* And or an Or of that many simple predicates.
C18_TruthAssignment ==
    (genKind = "Compound") =>
        LET n == Len(genBools)
        IN  /\ n \in MinChildren .. MaxChildren
            /\ genOut.op \in {"And", "Or"}
            /\ (genOut.op = "And" /\ genWant) => \A i \in 1 .. n : genBools[i]
            /\ (genOut.op = "And" /\ ~genWant) => \E i \in 1 .. n : ~genBools[i]
            /\ (genOut.op = "Or" /\ genWant) => \E i \in 1 .. n : genBools[i]
            /\ (genOut.op = "Or" /\ ~genWant) => \A i \in 1 .. n : ~genBools[i]
            /\ genPc = "done" =>
                  /\ Len(genOut.children) = n
                  /\ \A i \in 1 .. n : genOut.children[i].op \in {"Eq", "Gt", "Lt"}

\* An And that is to be false was returned with three children, built with
\* true, false and true.
C18_Witness ==
    /\ genKind = "Compound" /\ genPc = "done" /\ ~genWant /\ genOut.op = "And"
    /\ genBools = <<TRUE, FALSE, TRUE>>
    /\ Len(genOut.children) = 3

\* C19: an Insert that Query::arbitrary_of(T) returns names T and carries one
\* value per column of T, the i-th of the kind of the i-th column's type,
\* none of them Null.
C19_InsertKinds ==
    (genKind = "Query" /\ genPc = "done" /\ genOut.kind = "Insert") =>
        /\ genOut.table = genT.name
        /\ Len(genOut.values) = Len(genT.columns)
        /\ \A c \in 1 .. Len(genT.columns) :
              /\ genOut.values[c].kind = genT.columns[c].column_type
              /\ genOut.values[c] # Null

\* An Insert for a table of an Integer and a Text column.
C19_Witness ==
    /\ genKind = "Query" /\ genPc = "done" /\ genOut.kind = "Insert"
    /\ Len(genT.columns) = 2
    /\ genT.columns[1].column_type = "Integer"
    /\ genT.columns[2].column_type = "Text"

\* C20 as stated: the value of every simple predicate is of the kind of the
\* chosen column's type, for every table, one with no rows included.
C20_RhsKindAlways ==
    (genKind = "Simple" /\ genPc = "done") =>
        \E c \in 1 .. Len(genT.columns) :
            /\ genT.columns[c].name = genOut.col
            /\ genOut.val.kind = genT.columns[c].column_type

\* C20, amended: for a table with rows the value of a simple predicate is of
\* the kind of the chosen column's type; for a table with no rows it is Null,
\* except for an Eq built for false, whose value is drawn from the column's
\* type.
C20_RhsKind ==
    (genKind = "Simple" /\ genPc = "done") =>
        \E c \in 1 .. Len(genT.columns) :
            /\ genT.columns[c].name = genOut.col
            /\ IF genT.rows = <<>> /\ ~(genOut.op = "Eq" /\ ~genWant)
               THEN genOut.val = Null
               ELSE genOut.val.kind = genT.columns[c].column_type

\* A Lt on a table with no rows, its value Null.
C20_Witness ==
    /\ genKind = "Simple" /\ genPc = "done"
    /\ genT.rows = <<>> /\ genOut.op = "Lt" /\ genOut.val = Null

\* C21: for every Text t, LTValue::arbitrary_of(t) and
\* GTValue::arbitrary_of(t) return a well-formed Text and never abort.
C21_TextVariantsTotal ==
    (genKind \in {"LT", "GT"} /\ genPc # "start" /\ genArg.kind = "Text") =>
        /\ genPc = "done"
        /\ genOut.kind = "Text"
        /\ IsValidUtf8(genOut.v)

\* The number of single quotes in a byte sequence.
RECURSIVE QuoteCount(_)
QuoteCount(s) ==
    IF s = <<>> THEN 0
    ELSE (IF s[1] = Quote THEN 1 ELSE 0) + QuoteCount(Tail(s))

\* C22: no Text the generators produce, the Texts of a table and the
\* strictly-less and strictly-greater variants of them, holds a single quote:
\* written as SQL each has exactly two quotes.
C22_NoQuoteInText ==
    /\ \A v \in TableValues(genT) :
          v.kind = "Text" => QuoteCount(DisplayText(v.v)) = 2
    /\ (genKind \in {"LT", "GT"} /\ genPc = "done" /\ genOut.kind = "Text") =>
          QuoteCount(DisplayText(genOut.v)) = 2

\* C26: for every Integer that Value::arbitrary_of(Integer) produces, the
\* range LTValue::arbitrary_of and GTValue::arbitrary_of draw from is not
\* empty and its bounds do not overflow: neither call aborts, and each
\* returns an Integer.
C26_IntegerRanges ==
    (genKind \in {"LT", "GT"} /\ genPc # "start" /\ genArg \in ValueOfType("Integer")) =>
        /\ genPc = "done"
        /\ genOut.kind = "Integer"
        /\ genKind = "LT" => GenRange(IntMin, genArg.v - 1) # {}
        /\ genKind = "GT" => GenRange(genArg.v, IntMax) # {}

\* C23: the destruction of a file calls the inner file's unlock_file exactly
\* once, whatever the file's fault flag: the injected fault never fails it.
C23_UnlockOnDrop ==
    /\ \A i \in 1 .. Len(files) :
          calls[i].drop_unlocks = IF calls[i].dropped THEN 1 ELSE 0
    /\ ioRes.op = "drop" => ioRes.res = "inner"

\* A file has been destroyed with its fault flag set.
C23_Witness ==
    /\ ioRes.op = "drop"
    /\ files[ioRes.file].fault
    /\ calls[ioRes.file].dropped

\* C28: whatever the file's fault flag, sync adds exactly 1 to syncs, goes on
\* to the inner file, and leaves reads, writes, nr_pread_faults,
\* nr_pwrite_faults, the flags and every other file as they were.
C28_SyncNeverFaults ==
    [][ioRes'.op = "sync" =>
          /\ ioRes'.res = "inner"
          /\ files' = [files EXCEPT ![ioRes'.file].syncs = @ + 1]
          /\ fault' = fault
          /\ nr_run_once_faults' = nr_run_once_faults]_vars

\* A sync has just been made on a file whose fault flag is set.
C28_Witness ==
    /\ ioRes.op = "sync"
    /\ files[ioRes.file].fault
    /\ files[ioRes.file].syncs = 1

\* C27: when run_once returns an error after next_row reported an I/O wait,
\* get_all_rows steps the statement no further (no next_row, no run_once, no
\* retry) and returns the rows decoded before the error: the caller goes on
\* with exactly those rows, and the engine is left as it was.
C27_RunOnceErrorEndsStatement ==
    [][(pc = "steps" /\ nr_run_once_faults' = nr_run_once_faults + 1) =>
          /\ eng' = eng
          /\ IF stmt.purpose = "create"
             \* maybe_add_table drops the rows of its CREATE TABLE and goes on
             \* to the schema query, a new statement
             THEN \/ (pc' = "steps" /\ stmt'.purpose = "schema" /\ stmt'.io = 0)
                  \/ (pc' = "exit" /\ err' = "query")
             ELSE /\ pc' \in {"loop", "panicked"}
                  /\ out' = out
                  /\ err' = "run_once"]_vars

\* A workload query has returned, on a run_once error, the one row it had
\* decoded before the error.
C27_Witness ==
    /\ pc = "loop" /\ err = "run_once"
    /\ nr_run_once_faults >= 1
    /\ Len(out) = 1

\* C24: the tick loop runs at most opts.ticks ticks, is left only because
\* opts.ticks is reached or an engine error was returned, and in both cases
\* the I/O statistics are then printed, exactly once: every run comes to
\* print_stats.
C24_Termination ==
    /\ [](tick <= opts.ticks)
    /\ [](pc \in {"exit", "done"} =>
            (tick = opts.ticks \/ err \in {"query", "next_row"}))
    /\ [][pc' = "done" => pc = "exit"]_vars
    /\ [][pc = "done" => pc' = "done"]_vars
    /\ <>(pc = "done")

C29_ResetRebind ==
    tcase.name = "test_statement_reset_bind" =>
        /\ tpc # "failed"
        /\ (tpc = "loop2" /\ tins.yielded = 1) =>
              trows = <<<<IntegerValue(1)>>, <<IntegerValue(2)>>>>
        /\ tpc = "passed" =>
              trows = <<<<IntegerValue(1)>>, <<IntegerValue(2)>>>>

\* The test has passed, with an IO result in its second loop.
C29_Witness ==
    /\ tcase.name = "test_statement_reset_bind"
    /\ tpc = "passed"
    /\ tins.io >= 1
    /\ Len(trows) = 2

C31_WorkloadOnFirstTable ==
    (/\ pc = "steps" /\ stmt.purpose = "query"
     /\ stmt.q.kind \in {"Select", "Insert", "Delete"}) =>
        /\ tables # <<>>
        /\ stmt.q.table = tables[1].name
        /\ \A n \in 2 .. Len(tables) : stmt.q.table # tables[n].name

\* An Insert is being stepped while env.tables holds two tables.
C31_Witness ==
    /\ pc = "steps" /\ stmt.purpose = "query"
    /\ stmt.q.kind = "Insert"
    /\ Len(tables) = 2

\* C33: whenever conn.query, db.connect or conn.close is called the facade's
\* fault flag is false: a fault drawn while a statement is stepped does not
\* outlast that statement. The calls are those of a tick that connects,
\* disconnects or submits a statement, and that of maybe_add_table's schema
\* query, submitted as soon as its CREATE TABLE has returned.
C33_FaultsConfined ==
    [][/\ (/\ tick' = tick + 1
           /\ connections' # connections \/ pc' \in {"steps", "exit"}) => ~fault
       /\ (/\ pc = "steps" /\ stmt.purpose = "create"
           /\ stmt'.purpose = "schema" \/ (pc' = "exit" /\ err' = "query")) => ~fault']_vars

\* C32: compare_equal_rows(a, b) returns without a failed assertion exactly
\* when a and b are equal row for row: as many rows, and in each pair of rows
\* as many values, equal at every position.
C32_CompareIffEqual ==
    (genKind = "Compare" /\ genPc # "start") =>
        (genPc = "done" <=> genT.rows = genArg.v)

\* C34: a statement is submitted only on the connection of a slot that is
\* Connected: never on a connection that conn.close() was called on; and a
\* slot that is Connected holds a connection obtained from db.connect()
\* after every close, one that no close was called on.
C34_OnlyOnConnected ==
    /\ \A i \in 1 .. Len(connections) :
          connections[i] = "Connected" =>
              (conns.cur[i] # 0 /\ conns.cur[i] \notin conns.closed)
    /\ pc = "steps" =>
          /\ conns.used \notin conns.closed
          /\ \E i \in 1 .. Len(connections) :
                connections[i] = "Connected" /\ conns.cur[i] = conns.used

\* A statement is stepped on the connection of a slot that was closed and
\* connected again.
C34_Witness ==
    /\ pc = "steps"
    /\ conns.closed # {}
    /\ conns.used # 0

====
